---- MODULE Spec2Model ----
(***************************************************************************)
(* Huffman tree codec, symbol decoder, compress and decompress of util.py. *)
(* One run: compress(tree, uncompressed) writes the compressed file, then  *)
(* decompress reads a prefix of that file (the whole file, or the file     *)
(* truncated to fewer bytes) and writes the output file.                   *)
(***************************************************************************)
EXTENDS Integers, Sequences, FiniteSets

\* ---- bounds ----
MaxLeaves == 3
MaxLen == 4

\* byte values that occur at the leaves of a tree and in the input file
Symbols == {65, 200}

\* TreeLeaf(None): the value of the end-of-message leaf, and the value
\* decode_byte returns when it falls off its loop
None == -1

\* ---- Tree model (huffman.TreeLeaf, huffman.TreeBranch) ----
Leaf(v) == [kind |-> "leaf", value |-> v]
Branch(l, r) == [kind |-> "branch", left |-> l, right |-> r]
IsLeaf(t) == t.kind = "leaf"
IsBranch(t) == t.kind = "branch"
NoTree == [kind |-> "none"]

RECURSIVE SeqsUpTo(_)
SeqsUpTo(n) ==
  IF n = 0 THEN {<<>>}
  ELSE LET S == SeqsUpTo(n - 1) IN
       S \cup {Append(s, b) : s \in {x \in S : Len(x) = n - 1}, b \in Symbols}
Inputs == SeqsUpTo(MaxLen)

\* ---- Bit stream adapter (bitio.BitReader, bitio.BitWriter) ----
Pow2(k) == IF k = 0 THEN 1 ELSE IF k = 1 THEN 2 ELSE IF k = 2 THEN 4
           ELSE IF k = 3 THEN 8 ELSE IF k = 4 THEN 16 ELSE IF k = 5 THEN 32
           ELSE IF k = 6 THEN 64 ELSE 128

\* BitWriter.writebits(value, n): the n low bits of value, highest first
writebits(value, n) == [i \in 1..n |-> (value \div Pow2(n - i)) % 2]

\* BitReader.readbit(): the next bit, or the end-of-data signal
readbit(bits, pos) ==
  IF pos < Len(bits) THEN [ok |-> TRUE, v |-> bits[pos + 1], pos |-> pos + 1]
  ELSE [ok |-> FALSE, v |-> 0, pos |-> pos]

\* BitReader.readbits(n): v = (v << 1) | readbit(), n times
RECURSIVE readbitsAcc(_, _, _, _)
readbitsAcc(bits, pos, n, v) ==
  IF n = 0 THEN [ok |-> TRUE, v |-> v, pos |-> pos]
  ELSE IF ~readbit(bits, pos).ok THEN [ok |-> FALSE, v |-> 0, pos |-> pos]
  ELSE readbitsAcc(bits, pos + 1, n - 1, 2 * v + readbit(bits, pos).v)
readbits(bits, pos, n) == readbitsAcc(bits, pos, n, 0)

\* BitWriter.flush(): zero bits up to the next byte boundary
flush(bits) == bits \o [i \in 1..((8 - (Len(bits) % 8)) % 8) |-> 0]

\* the bytes a flushed writer has put into its file
BitsToBytes(bits) ==
  [j \in 1..(Len(bits) \div 8) |-> readbits(bits, 8 * (j - 1), 8).v]
\* the bits a reader delivers from a file
BytesToBits(bytes) ==
  [i \in 1..(8 * Len(bytes)) |-> writebits(bytes[((i - 1) \div 8) + 1], 8)[((i - 1) % 8) + 1]]

\* ---- Tree codec ----
EOFError == [ok |-> FALSE, tree |-> NoTree, pos |-> 0]

\* read_leaf with the symbol read as 7 bits
read_leaf_short(bits, pos) ==
  LET second_bit == readbit(bits, pos) IN
  IF ~second_bit.ok THEN EOFError
  ELSE IF second_bit.v = 0 THEN
    [ok |-> TRUE, tree |-> Leaf(None), pos |-> second_bit.pos]
  ELSE LET value == readbits(bits, second_bit.pos, 7) IN
       IF ~value.ok THEN EOFError
       ELSE [ok |-> TRUE, tree |-> Leaf(value.v), pos |-> value.pos]

\* read_leaf with the end of the data taken for an end-marker leaf
read_leaf_eof(bits, pos) ==
  LET second_bit == readbit(bits, pos) IN
  IF ~second_bit.ok THEN [ok |-> TRUE, tree |-> Leaf(None), pos |-> pos]
  ELSE IF second_bit.v = 0 THEN
    [ok |-> TRUE, tree |-> Leaf(None), pos |-> second_bit.pos]
  ELSE LET value == readbits(bits, second_bit.pos, 8) IN
       IF ~value.ok THEN [ok |-> TRUE, tree |-> Leaf(None), pos |-> Len(bits)]
       ELSE [ok |-> TRUE, tree |-> Leaf(value.v), pos |-> value.pos]

\* the else branch of read_tree: the first bit was 0, a leaf follows
read_leaf(bits, pos) ==
  LET second_bit == readbit(bits, pos) IN
  IF ~second_bit.ok THEN EOFError
  ELSE IF second_bit.v = 0 THEN
    [ok |-> TRUE, tree |-> Leaf(None), pos |-> second_bit.pos]
  ELSE LET value == readbits(bits, second_bit.pos, 8) IN
       IF ~value.ok THEN EOFError
       ELSE [ok |-> TRUE, tree |-> Leaf(value.v), pos |-> value.pos]

RECURSIVE read_tree(_, _)
read_tree(bits, pos) ==
  LET first_bit == readbit(bits, pos) IN
  IF ~first_bit.ok THEN EOFError
  ELSE IF first_bit.v = 1 THEN
    LET leftsub == read_tree(bits, first_bit.pos) IN
    IF ~leftsub.ok THEN EOFError
    ELSE LET rightsub == read_tree(bits, leftsub.pos) IN
         IF ~rightsub.ok THEN EOFError
         ELSE [ok |-> TRUE, tree |-> Branch(leftsub.tree, rightsub.tree),
               pos |-> rightsub.pos]
  ELSE read_leaf(bits, first_bit.pos)

RECURSIVE write_tree(_)
write_tree(node) ==
  IF IsBranch(node) THEN <<1>> \o write_tree(node.left) \o write_tree(node.right)
  ELSE IF node.value = None THEN <<0, 0>>
  ELSE <<0, 1>> \o writebits(node.value, 8)

\* ---- Symbol decoder ----
\* decode_loop with the children swapped: right on 0, left on 1
RECURSIVE decode_loop_swapped(_, _, _)
decode_loop_swapped(node, bits, pos) ==
  IF ~readbit(bits, pos).ok THEN [value |-> None, pos |-> pos]
  ELSE LET next == IF readbit(bits, pos).v = 0 THEN node.right ELSE node.left IN
       IF IsLeaf(next) THEN [value |-> next.value, pos |-> pos + 1]
       ELSE decode_loop_swapped(next, bits, pos + 1)

\* the while loop of decode_byte, entered with node a TreeBranch
RECURSIVE decode_loop(_, _, _)
decode_loop(node, bits, pos) ==
  IF ~readbit(bits, pos).ok THEN [value |-> None, pos |-> pos]
  ELSE LET next == IF readbit(bits, pos).v = 0 THEN node.left ELSE node.right IN
       IF IsLeaf(next) THEN [value |-> next.value, pos |-> pos + 1]
       ELSE decode_loop(next, bits, pos + 1)

decode_byte(t, bits, pos) ==
  IF IsBranch(t) THEN decode_loop(t, bits, pos)
  ELSE [value |-> None, pos |-> pos]

\* ---- Encoding table (huffman.make_encoding_table) ----
RECURSIVE Paths(_, _)
\* the root-to-leaf paths (left 0, right 1) of the leaves holding value s
Paths(t, s) ==
  IF IsLeaf(t) THEN (IF t.value = s THEN {<<>>} ELSE {})
  ELSE {<<0>> \o p : p \in Paths(t.left, s)} \cup {<<1>> \o p : p \in Paths(t.right, s)}
SymbolsOf(t) == {s \in Symbols : Paths(t, s) # {}}
\* byte -> the path to the leaf that holds it
make_encoding_table(t) == [s \in SymbolsOf(t) |-> CHOOSE p \in Paths(t, s) : TRUE]

\* ---- the trees and inputs of a run ----
\* trees of up to MaxLeaves leaves; a leaf holds a byte or the end marker,
\* and no byte is held by two leaves (the table has one code per byte)
TreesN[n \in 1..MaxLeaves] ==
  IF n = 1 THEN {Leaf(v) : v \in Symbols \cup {None}}
  ELSE UNION {{Branch(l, r) : l \in TreesN[k], r \in TreesN[n - k]} : k \in 1..(n - 1)}
Trees ==
  {t \in UNION {TreesN[n] : n \in 1..MaxLeaves} :
     \A s \in Symbols : Cardinality(Paths(t, s)) <= 1}

VARIABLES
  tree,          \* compress: the tree argument
  uncompressed,  \* compress: the bytes of the input file
  encode,        \* compress: the encoding table
  ipos,          \* compress: bytes read from the input so far
  cbits,         \* compress: the bits written to Target, in order
  cflush,        \* compress: calls of Target.flush()
  cpc,           \* compress: "start", "loop", "done", "error" (KeyError)
  stream,        \* decompress: the bytes of the compressed file it is given
  rbits,         \* decompress: the bits the reader delivers from stream
  dtree,         \* decompress: the tree read_tree returned
  rpos,          \* decompress: bits the reader has consumed
  entry,         \* value of rpos when the last decode_byte was entered
  val,           \* decompress: what the last decode_byte returned
  obits,         \* decompress: the bits written to Target, in order
  oflush,        \* decompress: calls of Target.flush()
  dpc            \* decompress: "idle", "decode", "done", "error" (EOFError)
vars == <<tree, uncompressed, encode, ipos, cbits, cflush, cpc,
          stream, rbits, dtree, rpos, entry, val, obits, oflush, dpc>>
cvars == <<tree, uncompressed, encode, ipos, cbits, cflush, cpc>>
dvars == <<stream, rbits, dtree, rpos, entry, val, obits, oflush, dpc>>

Init ==
  /\ tree = NoTree
  /\ uncompressed = <<>>
  /\ encode = <<>>
  /\ ipos = 0
  /\ cbits = <<>>
  /\ cflush = 0
  /\ cpc = "start"
  /\ stream = <<>>
  /\ rbits = <<>>
  /\ dtree = NoTree
  /\ rpos = 0
  /\ entry = -1
  /\ val = None
  /\ obits = <<>>
  /\ oflush = 0
  /\ dpc = "idle"

\* compress(tree, uncompressed, compressed), up to the loop: write the
\* tree, build the table
CompressStart ==
  /\ cpc = "start"
  /\ \E t \in Trees, u \in Inputs :
       /\ tree' = t
       /\ uncompressed' = u
       /\ cbits' = cbits \o write_tree(t)
       /\ encode' = make_encoding_table(t)
  /\ cpc' = "loop"
  /\ UNCHANGED <<ipos, cflush>>
  /\ UNCHANGED dvars

\* CompressByte with a byte that has no code skipped
CompressByte_skip ==
  /\ cpc = "loop"
  /\ ipos < Len(uncompressed)
  /\ LET reading == uncompressed[ipos + 1] IN
       cbits' = IF reading \in DOMAIN encode THEN cbits \o encode[reading] ELSE cbits
  /\ cpc' = "loop"
  /\ ipos' = ipos + 1
  /\ UNCHANGED <<tree, uncompressed, encode, cflush>>
  /\ UNCHANGED dvars

\* one pass of the loop of compress with a byte read: its code is written,
\* or the table lookup fails
CompressByte ==
  /\ cpc = "loop"
  /\ ipos < Len(uncompressed)
  /\ LET reading == uncompressed[ipos + 1] IN
       IF reading \in DOMAIN encode
       THEN /\ cbits' = cbits \o encode[reading]
            /\ cpc' = "loop"
       ELSE /\ cbits' = cbits
            /\ cpc' = "error"
  /\ ipos' = ipos + 1
  /\ UNCHANGED <<tree, uncompressed, encode, cflush>>
  /\ UNCHANGED dvars

\* CompressEnd without the terminator
CompressEnd_noterm ==
  /\ cpc = "loop"
  /\ ipos = Len(uncompressed)
  /\ cbits' = flush(cbits)
  /\ cflush' = cflush + 1
  /\ cpc' = "done"
  /\ UNCHANGED <<tree, uncompressed, encode, ipos>>
  /\ UNCHANGED dvars

\* the pass that meets the end of the input: 0 0, leave the loop, flush
CompressEnd ==
  /\ cpc = "loop"
  /\ ipos = Len(uncompressed)
  /\ cbits' = flush(cbits \o <<0, 0>>)
  /\ cflush' = cflush + 1
  /\ cpc' = "done"
  /\ UNCHANGED <<tree, uncompressed, encode, ipos>>
  /\ UNCHANGED dvars

\* decompress, up to the loop, on the first k bytes of the compressed file
DecompressStart ==
  /\ dpc = "idle"
  /\ cpc = "done"
  /\ \E k \in 0..(Len(cbits) \div 8) :
       /\ stream' = SubSeq(BitsToBytes(cbits), 1, k)
       /\ rbits' = BytesToBits(stream')
       /\ LET r == read_tree(rbits', 0) IN
            IF r.ok
            THEN /\ dtree' = r.tree
                 /\ rpos' = r.pos
                 /\ dpc' = "decode"
            ELSE /\ dtree' = NoTree
                 /\ rpos' = rpos
                 /\ dpc' = "error"
  /\ UNCHANGED <<entry, val, obits, oflush>>
  /\ UNCHANGED cvars

\* DecodeStep without the flush after the loop
DecodeStep_noflush ==
  /\ dpc = "decode"
  /\ LET r == decode_byte(dtree, rbits, rpos) IN
       /\ entry' = rpos
       /\ val' = r.value
       /\ rpos' = r.pos
       /\ IF r.value = None
          THEN /\ obits' = obits
               /\ oflush' = oflush
               /\ dpc' = "done"
          ELSE /\ obits' = obits \o writebits(r.value, 8)
               /\ oflush' = oflush
               /\ dpc' = "decode"
  /\ UNCHANGED <<stream, rbits, dtree>>
  /\ UNCHANGED cvars

\* DecodeStep that leaves the loop only on None with bits still unread
DecodeStep_retry ==
  /\ dpc = "decode"
  /\ LET r == decode_byte(dtree, rbits, rpos) IN
       /\ entry' = rpos
       /\ val' = r.value
       /\ rpos' = r.pos
       /\ IF r.value = None /\ r.pos < Len(rbits)
          THEN /\ obits' = flush(obits)
               /\ oflush' = oflush + 1
               /\ dpc' = "done"
          ELSE /\ obits' = IF r.value = None THEN obits
                             ELSE obits \o writebits(r.value, 8)
               /\ oflush' = oflush
               /\ dpc' = "decode"
  /\ UNCHANGED <<stream, rbits, dtree>>
  /\ UNCHANGED cvars

\* one pass of the loop of decompress; the pass that gets None leaves the
\* loop and flushes
DecodeStep ==
  /\ dpc = "decode"
  /\ LET r == decode_byte(dtree, rbits, rpos) IN
       /\ entry' = rpos
       /\ val' = r.value
       /\ rpos' = r.pos
       /\ IF r.value = None
          THEN /\ obits' = flush(obits)
               /\ oflush' = oflush + 1
               /\ dpc' = "done"
          ELSE /\ obits' = obits \o writebits(r.value, 8)
               /\ oflush' = oflush
               /\ dpc' = "decode"
  /\ UNCHANGED <<stream, rbits, dtree>>
  /\ UNCHANGED cvars

Next == CompressStart \/ CompressByte \/ CompressEnd \/ DecompressStart \/ DecodeStep

Spec == Init /\ [][Next]_vars
FairSpec == Spec /\ WF_vars(DecodeStep)

\* ---- helpers of the properties ----
TreeBits == Len(write_tree(tree))
\* decompress was given the whole compressed file
WholeFile == 8 * Len(stream) = Len(cbits)
HasEof(t) == Paths(t, None) # {}
Zeros(n) == [i \in 1..n |-> 0]

RECURSIVE Codes(_, _)
\* the codes of the bytes of s under table e, one after the other
Codes(e, s) == IF s = <<>> THEN <<>> ELSE e[Head(s)] \o Codes(e, Tail(s))

RECURSIVE NodeAt(_, _)
\* the node a path leads to from t; NoTree when the path runs past a leaf
NodeAt(t, path) ==
  IF path = <<>> THEN t
  ELSE IF ~IsBranch(t) THEN NoTree
  ELSE NodeAt(IF Head(path) = 0 THEN t.left ELSE t.right, Tail(path))

\* the depths at which the bits from position pos on reach a leaf of t
LeafDepths(t, bits, pos) ==
  {d \in 1..(Len(bits) - pos) : IsLeaf(NodeAt(t, SubSeq(bits, pos + 1, pos + d)))}
\* the first byte of the input that no leaf of the tree holds (0: none)
FirstAbsent ==
  LET bad == {i \in 1..Len(uncompressed) : uncompressed[i] \notin SymbolsOf(tree)} IN
  IF bad = {} THEN 0 ELSE CHOOSE i \in bad : \A j \in bad : i <= j

\* C1: decompress of the whole file that compress wrote from a tree with an
\* end-marker leaf writes exactly the bytes compress read.
RoundTrip ==
  (dpc = "done" /\ WholeFile /\ HasEof(tree)) => BitsToBytes(obits) = uncompressed

\* C2: read_tree on the bits of write_tree(tree) followed by any further
\* bits returns a tree identical to tree and leaves the reader right after
\* the last bit write_tree emitted.
TreeRoundTrip ==
  [][(dpc = "idle" /\ dpc' # "idle" /\ 8 * Len(stream') >= TreeBits)
       => (dpc' = "decode" /\ dtree' = tree /\ rpos' = TreeBits)]_vars
TreeRoundTripWitness ==
  /\ dpc = "decode" /\ entry = -1 /\ dtree = tree
  /\ IsBranch(tree) /\ SymbolsOf(tree) = Symbols /\ rpos < 8 * Len(stream)

\* C3: decode_byte on a tree that is a single leaf returns the value of
\* that leaf and reads no bit.
SingleLeafDecode ==
  [][(dpc = "decode" /\ IsLeaf(dtree)) => (val' = dtree.value /\ rpos' = rpos)]_vars

\* C4: decompress of the whole file that compress wrote from an empty input
\* writes no byte.
EmptyInputEmptyOutput ==
  (dpc = "done" /\ WholeFile /\ uncompressed = <<>>) => obits = <<>>

\* C5: when the stream ends before the tree description is complete,
\* decompress aborts with the end-of-data error: no tree, nothing written,
\* nothing flushed.
TruncatedTreeAborts ==
  (dpc # "idle" /\ 8 * Len(stream) < TreeBits)
    => (dpc = "error" /\ dtree = NoTree /\ obits = <<>> /\ oflush = 0)
TruncatedTreeWitness ==
  dpc = "error" /\ Len(stream) > 0 /\ 8 * Len(stream) < TreeBits

\* C6: when the input holds a byte that no leaf of the tree holds, compress
\* fails at the first such byte: the bits written are the tree and the codes
\* of the bytes before it, without the terminator, and nothing is flushed.
UnencodableAborts ==
  (FirstAbsent > 0 /\ (cpc \in {"done", "error"} \/ ipos >= FirstAbsent))
    => /\ cpc = "error"
       /\ ipos = FirstAbsent
       /\ cflush = 0
       /\ cbits = write_tree(tree) \o Codes(encode, SubSeq(uncompressed, 1, FirstAbsent - 1))
UnencodableWitness ==
  cpc = "error" /\ FirstAbsent > 1

\* C7: when the stream runs out while decode_byte is below the root and
\* above every leaf, decode_byte returns None, and decompress leaves its
\* loop, writes nothing more and flushes.
DegenerateStop ==
  [][(dpc = "decode" /\ IsBranch(dtree) /\ LeafDepths(dtree, rbits, rpos) = {})
       => (val' = None /\ dpc' = "done" /\ obits' = obits /\ oflush' = oflush + 1)]_vars
DegenerateStopWitness ==
  /\ dpc = "done" /\ entry >= 0 /\ entry < 8 * Len(stream) /\ IsBranch(dtree)
  /\ LeafDepths(dtree, rbits, entry) = {}
  /\ obits # <<>>

\* C8: the bits of a successful compress are the tree, the codes of the
\* input bytes in order, 0 0, and fewer than 8 zero bits up to a byte
\* boundary; there is one flush, after the terminator, and none before.
WireLayout ==
  /\ cpc = "loop" =>
       /\ cflush = 0
       /\ cbits = write_tree(tree) \o Codes(encode, SubSeq(uncompressed, 1, ipos))
  /\ cpc = "done" =>
       /\ cflush = 1
       /\ Len(cbits) % 8 = 0
       /\ \E pad \in 0..7 :
            cbits = write_tree(tree) \o Codes(encode, uncompressed) \o <<0, 0>> \o Zeros(pad)
WireLayoutWitness ==
  /\ cpc = "done" /\ Len(uncompressed) >= 2
  /\ TreeBits % 8 # 0
  /\ Len(cbits) > TreeBits + Len(Codes(encode, uncompressed)) + 2

\* C9: under a tree whose root is a branch and with enough bits left,
\* decode_byte goes left on 0 and right on 1 from the root, returns the value
\* of the first leaf it reaches and reads as many bits as that leaf is deep.
DecodeWalk ==
  [][(dpc = "decode" /\ IsBranch(dtree) /\ LeafDepths(dtree, rbits, rpos) # {})
       => LET d == CHOOSE x \in LeafDepths(dtree, rbits, rpos) :
                     \A y \in LeafDepths(dtree, rbits, rpos) : x <= y
          IN /\ val' = NodeAt(dtree, SubSeq(rbits, rpos + 1, rpos + d)).value
             /\ rpos' = rpos + d]_vars
DecodeWalkWitness ==
  /\ dpc = "decode" /\ IsBranch(dtree) /\ val \in Symbols
  /\ rpos = entry + 2
  /\ NodeAt(dtree, SubSeq(rbits, entry + 1, rpos)) = Leaf(val)

====
